---- MODULE Spec2Model ----
(***************************************************************************)
(* Video + Music Merger (src/main.py).                                     *)
(*                                                                         *)
(* Five specifications over one set of variables:                          *)
(*   LoadSpec  module load: the engine locator and the optional imports    *)
(*   VolSpec   the volume adapter _safe_vol applied to one call            *)
(*   JobSpec   one MergeWorker.run, stage by stage                         *)
(*   Spec      the application: MainWindow, its worker threads, the        *)
(*             queued signals                                              *)
(*   ThreadSpec  one QThread and its MergeWorker from start() to the end   *)
(*             of both objects                                             *)
(* A variable a specification does not use keeps its idle value.           *)
(***************************************************************************)
EXTENDS Integers, Sequences, FiniteSets, Bags, TLC

VARIABLES
    ENGINE,             \* module global ENGINE
    FFMPEG_ERROR,       \* module global FFMPEG_ERROR
    boot,               \* LoadSpec: module load in progress
    call,               \* VolSpec: one call of _safe_vol
    job,                \* JobSpec: one MergeWorker and its run()
    state,              \* MainWindow.state (SelectionState)
    merge_btn,          \* MainWindow.merge_btn.isEnabled()
    music_slider,       \* MainWindow.music_slider.value()
    original_slider,    \* MainWindow.original_slider.value()
    keep_original_chk,  \* MainWindow.keep_original_chk.isChecked()
    output_label,       \* file named by MainWindow.output_label
    running,            \* bag of workers whose thread was started, run() not over
    queue,              \* slot calls queued on the interactive thread
    disk,               \* output files write_videofile has created
    thread              \* ThreadSpec: one QThread, its worker and their connections

vars == <<ENGINE, FFMPEG_ERROR, boot, call, job, state, merge_btn, music_slider,
          original_slider, keep_original_chk, output_label, running, queue, disk,
          thread>>

globals == <<ENGINE, FFMPEG_ERROR>>
shell == <<state, merge_btn, music_slider, original_slider, keep_original_chk,
           output_label>>
threads == <<running, queue, disk>>

None == "None"

abs(x) == IF x < 0 THEN -x ELSE x

(***************************************************************************)
(* Volume adapter.  A level is held in percent (the sliders' unit:          *)
(* value() / 100.0), a clip is its track and the gain, in percent, applied  *)
(* to its samples so far, and its length in seconds.                        *)
(***************************************************************************)
FULL == 100

\* |level - 1.0| < 1e-9 with level in percent: |level - 100| * 10^7 < 1
EPS_INV == 10000000

Levels == {0, 20, 80, 100, 120}

Clip(track, len) == [track |-> track, gain |-> FULL, len |-> len]

MultiplyVolume(clip, level) == [clip EXCEPT !.gain = (clip.gain * level) \div FULL]

\* What the linked library offers on a clip: the method clip.volumex, clip.fx
\* applied to the imported effect, the method clip.fl.
Caps == [volumex : {"absent", "raises", "ok"},
         fx      : {"raises", "ok"},
         fl      : {"absent", "raises", "ok"}]

VOLUME_ERROR == "Volume effect not available in this MoviePy build."

Returned(clip, via) == [ok |-> TRUE, clip |-> clip, via |-> via, err |-> ""]
Raised(clip, msg) == [ok |-> FALSE, clip |-> clip, via |-> "none", err |-> msg]

_safe_vol_always_noop(clip, level, cap, volumex) ==
    IF cap.volumex = "ok" THEN Returned(MultiplyVolume(clip, level), "volumex")
    ELSE IF volumex # None /\ cap.fx = "ok" THEN Returned(MultiplyVolume(clip, level), "fx")
    ELSE IF cap.fl = "ok" THEN Returned(MultiplyVolume(clip, level), "fl")
    ELSE Returned(clip, "noop")

_safe_vol(clip, level, cap, volumex) ==
    IF cap.volumex = "ok" THEN Returned(MultiplyVolume(clip, level), "volumex")
    ELSE IF volumex # None /\ cap.fx = "ok" THEN Returned(MultiplyVolume(clip, level), "fx")
    ELSE IF cap.fl = "ok" THEN Returned(MultiplyVolume(clip, level), "fl")
    ELSE IF abs(level - FULL) * EPS_INV < 1 THEN Returned(clip, "noop")
    ELSE Raised(clip, VOLUME_ERROR)

(***************************************************************************)
(* Media engine locator and module load.                                   *)
(***************************************************************************)
Engines == {"system-ffmpeg", "bundled-ffmpeg", "disabled"}

NO_FFMPEG == "No FFmpeg executable found. Install FFmpeg or keep 'imageio-ffmpeg' installed."

\* imageio_ffmpeg.get_ffmpeg_exe(): a path that exists, a path that does not, an exception
Bundled == {"exists", "missing", "raises"}

\* which = shutil.which("ffmpeg") found an executable
ensure_ffmpeg_available_bundled_first(which, bundled) ==
    IF bundled = "exists"
    THEN [ENGINE |-> "bundled-ffmpeg", path |-> "bundled", raised |-> FALSE, err |-> ""]
    ELSE IF which
    THEN [ENGINE |-> "system-ffmpeg", path |-> "system", raised |-> FALSE, err |-> ""]
    ELSE [ENGINE |-> "disabled", path |-> None, raised |-> TRUE, err |-> NO_FFMPEG]

ensure_ffmpeg_available(which, bundled) ==
    IF which
    THEN [ENGINE |-> "system-ffmpeg", path |-> "system", raised |-> FALSE, err |-> ""]
    ELSE IF bundled = "exists"
    THEN [ENGINE |-> "bundled-ffmpeg", path |-> "bundled", raised |-> FALSE, err |-> ""]
    ELSE [ENGINE |-> "disabled", path |-> None, raised |-> TRUE, err |-> NO_FFMPEG]

\* The module-level try around the locator: what is left in FFMPEG_ERROR and
\* os.environ["IMAGEIO_FFMPEG_EXE"], and where the load goes on.
setup_ffmpeg(r) ==
    IF r.raised
    THEN [FFMPEG_ERROR |-> r.err, environ |-> None, pc |-> "import_volumex"]
    ELSE [FFMPEG_ERROR |-> None, environ |-> r.path, pc |-> "import_volumex"]

\* What moviepy.audio.fx.MultiplyVolume exports under the two names tried.
VolumeExports == {"multiply_volume", "volumex", "neither"}

import_volumex(exported) == IF exported = "neither" THEN None ELSE exported

\* exported = moviepy.audio.fx.AudioLoop has a name audio_loop
import_audio_loop(exported) == IF exported THEN "audio_loop" ELSE None

\* The advisory MainWindow.__init__ shows for the engine found.
startup_advisory(engine) ==
    IF engine = "bundled-ffmpeg" THEN "Speed tip"
    ELSE IF engine = "disabled" THEN "FFmpeg missing"
    ELSE None

Off == [pc |-> "off"]

\* MainWindow.__init__: nothing selected, the merge button disabled, the
\* sliders and the checkbox at their defaults.
MUSIC_DEFAULT == 100
ORIGINAL_DEFAULT == 20

SelectionState == [video_path |-> None, audio_path |-> None, output_path |-> None]

MainWindow_init ==
    /\ state = SelectionState
    /\ merge_btn = FALSE
    /\ music_slider = MUSIC_DEFAULT
    /\ original_slider = ORIGINAL_DEFAULT
    /\ keep_original_chk = TRUE
    /\ output_label = None

NoThreads ==
    /\ running = EmptyBag
    /\ queue = <<>>
    /\ disk = {}
    /\ thread = Off

LoadInit ==
    /\ ENGINE = "disabled"
    /\ FFMPEG_ERROR = None
    /\ \E w \in BOOLEAN, b \in Bundled, vx \in VolumeExports, al \in BOOLEAN :
          boot = [pc |-> "locate", which |-> w, bundled |-> b, fx_exports |-> vx,
                  loop_exported |-> al, environ |-> None, volumex |-> None,
                  audio_loop |-> None, advisory |-> None]
    /\ call = Off
    /\ job = Off
    /\ MainWindow_init
    /\ NoThreads

Locate ==
    /\ boot.pc = "locate"
    /\ LET r == ensure_ffmpeg_available(boot.which, boot.bundled)
           s == setup_ffmpeg(r)
       IN  /\ ENGINE' = r.ENGINE
           /\ FFMPEG_ERROR' = s.FFMPEG_ERROR
           /\ boot' = [boot EXCEPT !.pc = s.pc, !.environ = s.environ]
    /\ UNCHANGED <<call, job, shell, threads, thread>>

ImportVolumex ==
    /\ boot.pc = "import_volumex"
    /\ boot' = [boot EXCEPT !.pc = "import_audio_loop",
                            !.volumex = import_volumex(boot.fx_exports)]
    /\ UNCHANGED <<globals, call, job, shell, threads, thread>>

ImportAudioLoop ==
    /\ boot.pc = "import_audio_loop"
    /\ boot' = [boot EXCEPT !.pc = "main",
                            !.audio_loop = import_audio_loop(boot.loop_exported)]
    /\ UNCHANGED <<globals, call, job, shell, threads, thread>>

Main ==
    /\ boot.pc = "main"
    /\ boot' = [boot EXCEPT !.pc = "exec", !.advisory = startup_advisory(ENGINE)]
    /\ state' = SelectionState
    /\ merge_btn' = FALSE
    /\ music_slider' = MUSIC_DEFAULT
    /\ original_slider' = ORIGINAL_DEFAULT
    /\ keep_original_chk' = TRUE
    /\ output_label' = None
    /\ UNCHANGED <<globals, call, job, threads, thread>>

LoadNext == Locate \/ ImportVolumex \/ ImportAudioLoop \/ Main

LoadSpec == LoadInit /\ [][LoadNext]_vars

(***************************************************************************)
(* One call of the volume adapter.                                         *)
(***************************************************************************)
Tracks == {"music", "original"}
MusicLengths == {3}

VolInit ==
    /\ ENGINE = "disabled"
    /\ FFMPEG_ERROR = None
    /\ boot = Off
    /\ \E t \in Tracks, n \in MusicLengths, l \in Levels, c \in Caps,
          vx \in {import_volumex(x) : x \in VolumeExports} :
          call = [pc |-> "called", clip |-> Clip(t, n), level |-> l, cap |-> c,
                  volumex |-> vx, res |-> Off]
    /\ job = Off
    /\ MainWindow_init
    /\ NoThreads

SafeVol ==
    /\ call.pc = "called"
    /\ call' = [call EXCEPT !.pc = "over",
                  !.res = _safe_vol(call.clip, call.level, call.cap, call.volumex)]
    /\ UNCHANGED <<globals, boot, job, shell, threads, thread>>

VolNext == SafeVol

VolSpec == VolInit /\ [][VolNext]_vars

(***************************************************************************)
(* MergeWorker.  A worker holds the request it was constructed with and,    *)
(* while run() executes, run()'s locals: the handles the with statements    *)
(* hold open, the clips, the signals emitted so far.  lib is what the       *)
(* module imported (volumex, audio_loop).  The file system and the library  *)
(* answer each stage through the stage's last argument.                     *)
(***************************************************************************)
VideoFiles == {"talk.mp4", "trip.mov"}
AudioFiles == {"song.mp3"}
SliderStops == {20, 100}
OUT_FILE == "merged.mp4"

Requests == [video_path : VideoFiles, audio_path : AudioFiles, output_path : {OUT_FILE},
             music_level : SliderStops, original_level : SliderStops, duck : BOOLEAN]

Libs == [volumex : {import_volumex(x) : x \in VolumeExports},
         audio_loop : {import_audio_loop(x) : x \in BOOLEAN}]

NoClip == [track |-> "none", gain |-> 0, len |-> 0]

MergeWorker(req, lib) ==
    [pc |-> "start", req |-> req, lib |-> lib, open |-> {}, duration |-> 0, v_fps |-> 0,
     original_audio |-> NoClip, music |-> NoClip, loop |-> "-", vol_calls |-> <<>>,
     audio |-> {}, exc |-> "", emitted |-> <<>>, written |-> "no"]

Progress(n) == [sig |-> "progress", n |-> n, text |-> ""]
Finished(path) == [sig |-> "finished", n |-> 0, text |-> path]
Failed(msg) == [sig |-> "failed", n |-> 0, text |-> msg]

Emit(w, signal) == [w EXCEPT !.emitted = Append(@, signal)]

ENGINE_ERROR == "FFmpeg unavailable."
VIDEO_ERROR == "MoviePy error: the video file could not be read."
MUSIC_ERROR == "MoviePy error: the audio file could not be read."
WRITE_ERROR == "MoviePy error: FFmpeg could not write the output file."

DEFAULT_FPS == 25

\* An exception leaves the with blocks it is raised in, which close their
\* clips, and reaches the handler of run().
Raise_past_with(w, msg) == [w EXCEPT !.exc = msg, !.pc = "except"]

Raise(w, msg) == [w EXCEPT !.open = {}, !.exc = msg, !.pc = "except"]

\* run() with the first milestone emitted before ENGINE is looked at.
run_check_engine_after_progress(w, engine) ==
    IF engine = "disabled"
    THEN Raise(Emit(w, Progress(5)), ENGINE_ERROR)
    ELSE [Emit(w, Progress(5)) EXCEPT !.pc = "load_video"]

run_check_engine(w, engine) ==
    IF engine = "disabled"
    THEN Raise(w, ENGINE_ERROR)
    ELSE [Emit(w, Progress(5)) EXCEPT !.pc = "load_video"]

\* VideoFileClip(path): it raises, or gives a clip of some duration and frame
\* rate (either may be missing) with or without an audio track.
\* An attribute that may be None is <<>> or <<value>>.
VideoDurations == {<<>>, <<0>>, <<10>>}
VideoRates == {<<>>, <<30>>}
VideoReads == {[ok |-> FALSE, duration |-> <<>>, fps |-> <<>>, audio |-> FALSE]}
    \cup [ok : {TRUE}, duration : VideoDurations, fps : VideoRates, audio : BOOLEAN]

\* x or default
Or(x, default) == IF x = <<>> \/ x = <<0>> THEN default ELSE x[1]

run_load_video(w, f) ==
    IF ~f.ok
    THEN Raise(w, VIDEO_ERROR)
    ELSE [Emit(w, Progress(20)) EXCEPT
            !.open = @ \cup {"video"},
            !.duration = Or(f.duration, 0),
            !.v_fps = Or(f.fps, DEFAULT_FPS),
            !.original_audio = IF f.audio THEN Clip("original", Or(f.duration, 0)) ELSE NoClip,
            !.pc = "load_music"]

\* AudioFileClip(path): it raises, or gives the music at its own length.
AudioReads == {[ok |-> FALSE, len |-> 0]} \cup [ok : {TRUE}, len : MusicLengths]

run_load_music(w, f) ==
    IF ~f.ok
    THEN Raise(w, MUSIC_ERROR)
    ELSE [w EXCEPT !.open = @ \cup {"music"},
                   !.music = Clip("music", f.len),
                   !.pc = "music_vol"]

run_music_vol(w, cap) ==
    LET r == _safe_vol(w.music, w.req.music_level, cap, w.lib.volumex)
    IN  IF ~r.ok
        THEN Raise([w EXCEPT !.vol_calls = Append(@, "music")], r.err)
        ELSE [w EXCEPT !.music = r.clip,
                       !.vol_calls = Append(@, "music"),
                       !.pc = "loop"]

\* audio_loop(music, duration=duration): the music at the video's length, or
\* an exception.
run_loop_fatal(w, raises) ==
    IF w.duration > 0 /\ w.lib.audio_loop # None
    THEN IF raises
         THEN Raise([w EXCEPT !.loop = "raised"], "audio_loop failed")
         ELSE [w EXCEPT !.music.len = w.duration, !.loop = "looped", !.pc = "mix"]
    ELSE [w EXCEPT !.loop = "skipped", !.pc = "mix"]

run_loop(w, raises) ==
    IF w.duration > 0 /\ w.lib.audio_loop # None
    THEN IF raises
         THEN [w EXCEPT !.loop = "raised", !.pc = "mix"]
         ELSE [w EXCEPT !.music.len = w.duration, !.loop = "looped", !.pc = "mix"]
    ELSE [w EXCEPT !.loop = "skipped", !.pc = "mix"]

\* The audio of merged_clip: the clips a CompositeAudioClip adds up, or the
\* music alone.
run_mix_always_bed(w, cap) ==
    IF w.original_audio # NoClip
    THEN LET r == _safe_vol(w.original_audio, w.req.original_level, cap, w.lib.volumex)
         IN  IF ~r.ok
             THEN Raise([w EXCEPT !.vol_calls = Append(@, "original")], r.err)
             ELSE [Emit(w, Progress(55)) EXCEPT
                     !.audio = {r.clip, w.music},
                     !.vol_calls = Append(@, "original"),
                     !.pc = "write"]
    ELSE [Emit(w, Progress(55)) EXCEPT !.audio = {w.music}, !.pc = "write"]

run_mix(w, cap) ==
    IF w.req.duck /\ w.original_audio # NoClip
    THEN LET r == _safe_vol(w.original_audio, w.req.original_level, cap, w.lib.volumex)
         IN  IF ~r.ok
             THEN Raise([w EXCEPT !.vol_calls = Append(@, "original")], r.err)
             ELSE [Emit(w, Progress(55)) EXCEPT
                     !.audio = {r.clip, w.music},
                     !.vol_calls = Append(@, "original"),
                     !.pc = "write"]
    ELSE [Emit(w, Progress(55)) EXCEPT !.audio = {w.music}, !.pc = "write"]

\* write_videofile: the file is written, or the encoder raises before or
\* after it created the file.  Leaving the two with blocks closes both clips.
WriteResults == {"ok", "raises", "raises_partial"}

run_write(w, result) ==
    IF result = "ok"
    THEN [w EXCEPT !.written = "whole", !.open = {}, !.pc = "report"]
    ELSE Raise([w EXCEPT !.written = IF result = "raises_partial" THEN "partial" ELSE "no"],
               WRITE_ERROR)

run_report(w) ==
    [Emit(Emit(w, Progress(100)), Finished(w.req.output_path)) EXCEPT !.pc = "done"]

run_except_silent(w) == [w EXCEPT !.pc = "done"]

run_except(w) == [Emit(w, Failed(w.exc)) EXCEPT !.pc = "done"]

\* The successors of a worker inside run().
run_step(w, engine) ==
    CASE w.pc = "start"      -> {run_check_engine(w, engine)}
      [] w.pc = "load_video" -> {run_load_video(w, f) : f \in VideoReads}
      [] w.pc = "load_music" -> {run_load_music(w, f) : f \in AudioReads}
      [] w.pc = "music_vol"  -> {run_music_vol(w, c) : c \in Caps}
      [] w.pc = "loop"       -> {run_loop(w, r) : r \in BOOLEAN}
      [] w.pc = "mix"        -> {run_mix(w, c) : c \in Caps}
      [] w.pc = "write"      -> {run_write(w, r) : r \in WriteResults}
      [] w.pc = "report"     -> {run_report(w)}
      [] w.pc = "except"     -> {run_except(w)}
      [] OTHER               -> {w}

\* The worker as any caller may construct it: run() checks ENGINE itself, so
\* the engine ranges over all three values.
JobInit ==
    /\ ENGINE \in Engines
    /\ FFMPEG_ERROR = (IF ENGINE = "disabled" THEN NO_FFMPEG ELSE None)
    /\ boot = Off
    /\ call = Off
    /\ \E req \in Requests, lib \in Libs : job = MergeWorker(req, lib)
    /\ MainWindow_init
    /\ NoThreads

JobFrame == UNCHANGED <<globals, boot, call, shell, threads, thread>>

CheckEngine ==
    /\ job.pc = "start"
    /\ job' = run_check_engine(job, ENGINE)
    /\ JobFrame

LoadVideo ==
    /\ job.pc = "load_video"
    /\ \E f \in VideoReads : job' = run_load_video(job, f)
    /\ JobFrame

LoadMusic ==
    /\ job.pc = "load_music"
    /\ \E f \in AudioReads : job' = run_load_music(job, f)
    /\ JobFrame

MusicVol ==
    /\ job.pc = "music_vol"
    /\ \E c \in Caps : job' = run_music_vol(job, c)
    /\ JobFrame

Loop ==
    /\ job.pc = "loop"
    /\ \E r \in BOOLEAN : job' = run_loop(job, r)
    /\ JobFrame

Mix ==
    /\ job.pc = "mix"
    /\ \E c \in Caps : job' = run_mix(job, c)
    /\ JobFrame

Write ==
    /\ job.pc = "write"
    /\ \E r \in WriteResults : job' = run_write(job, r)
    /\ JobFrame

Report ==
    /\ job.pc = "report"
    /\ job' = run_report(job)
    /\ JobFrame

Except ==
    /\ job.pc = "except"
    /\ job' = run_except(job)
    /\ JobFrame

JobNext ==
    \/ CheckEngine
    \/ LoadVideo
    \/ LoadMusic
    \/ MusicVol
    \/ Loop
    \/ Mix
    \/ Write
    \/ Report
    \/ Except

JobSpec == JobInit /\ [][JobNext]_vars

\* The worker thread is scheduled and every stage returns or raises.
JobFairSpec == JobSpec /\ WF_vars(JobNext)

(***************************************************************************)
(* The application.  merge_and_preview starts a thread per request; the    *)
(* thread runs MergeWorker.run, which reads the worker's own fields and    *)
(* ENGINE only, so its stages commute with whatever the interactive        *)
(* thread does meanwhile and WorkerRun takes them in one step.  The        *)
(* signals finished and failed reach on_merge_finished, on_merge_failed    *)
(* and QThread.quit as calls queued on the interactive thread, in the      *)
(* order the connections were made.  progress reaches the progress bar     *)
(* alone.  A handler of MainWindow runs to its end in one step: its         *)
(* dialogs are modal, what the user answers is drawn with \E, and what     *)
(* the handler does after a dialog depends on the state at that moment     *)
(* alone.                                                                  *)
(***************************************************************************)
MaxThreads == 2

RECURSIVE run_to_end(_, _)
run_to_end(ws, engine) ==
    IF \A w \in ws : w.pc = "done"
    THEN ws
    ELSE run_to_end(UNION {run_step(w, engine) : w \in ws}, engine)

\* What a finished run() leaves outside the worker: its last signal and the
\* output file.
Outcome(w) == [signal |-> w.emitted[Len(w.emitted)], written |-> w.written]

\* run() from start to end, for every request and engine: the set of
\* <<request, engine, outcome>>.
runs ==
    UNION {{<<req, engine, Outcome(w)>> :
               w \in run_to_end({MergeWorker(req, lib) : lib \in Libs}, engine)} :
           req \in Requests, engine \in Engines}

run(req, engine) == {r[3] : r \in {q \in runs : q[1] = req /\ q[2] = engine}}

Call(slot, arg) == [slot |-> slot, arg |-> arg]

\* The connections without worker.failed.connect(self.thread.quit).
Connected_failed_no_quit(signal) ==
    IF signal.sig = "finished"
    THEN <<Call("on_merge_finished", signal.text), Call("quit", signal.text)>>
    ELSE <<Call("on_merge_failed", signal.text)>>

\* The slots connected to the signal, MainWindow's first and then the thread's;
\* quit takes no argument and drops the signal's.
Connected(signal) ==
    IF signal.sig = "finished"
    THEN <<Call("on_merge_finished", signal.text), Call("quit", signal.text)>>
    ELSE <<Call("on_merge_failed", signal.text), Call("quit", signal.text)>>

Pending(slots) == Len(SelectSeq(queue, LAMBDA c : c.slot \in slots))

\* Jobs started whose outcome has not been delivered to MainWindow.
InFlight == BagCardinality(running) + Pending({"on_merge_finished", "on_merge_failed"})

\* QThreads started and not yet told to quit.
Threads == BagCardinality(running) + Pending({"quit"})

enable_merge_if_ready_any_engine(st, engine) ==
    st.video_path # None /\ st.audio_path # None

enable_merge_if_ready(st, engine) ==
    st.video_path # None /\ st.audio_path # None /\ engine # "disabled"

\* QFileDialog.getSaveFileName: "" when cancelled
SaveNames == {"", "merged", "merged.mp4"}

\* out_path + ".mp4" unless out_path.lower().endswith(".mp4")
with_mp4(out_path) == IF out_path = "merged" THEN "merged.mp4" ELSE out_path

Init ==
    /\ \E w \in BOOLEAN, b \in Bundled :
          LET r == ensure_ffmpeg_available(w, b)
          IN  /\ ENGINE = r.ENGINE
              /\ FFMPEG_ERROR = setup_ffmpeg(r).FFMPEG_ERROR
    /\ boot = Off
    /\ call = Off
    /\ job = Off
    /\ MainWindow_init
    /\ NoThreads

AppFrame == UNCHANGED <<globals, boot, call, job, thread>>

\* pick_video with the workers reading the video path from self.state instead
\* of holding the value they were constructed with.
pick_video_shared_state ==
    /\ \E path \in VideoFiles \cup {""} :
          IF path # ""
          THEN /\ state' = [state EXCEPT !.video_path = path]
               /\ merge_btn' = enable_merge_if_ready(state', ENGINE)
               /\ running' = BagOfAll(LAMBDA req : [req EXCEPT !.video_path = path],
                                      running)
          ELSE UNCHANGED <<state, merge_btn, running>>
    /\ UNCHANGED <<music_slider, original_slider, keep_original_chk, output_label>>
    /\ UNCHANGED <<queue, disk>>
    /\ AppFrame

\* QFileDialog.getOpenFileName: "" when cancelled
pick_video ==
    /\ \E path \in VideoFiles \cup {""} :
          IF path # ""
          THEN /\ state' = [state EXCEPT !.video_path = path]
               /\ merge_btn' = enable_merge_if_ready(state', ENGINE)
          ELSE UNCHANGED <<state, merge_btn>>
    /\ UNCHANGED <<music_slider, original_slider, keep_original_chk, output_label>>
    /\ UNCHANGED threads
    /\ AppFrame

pick_audio ==
    /\ \E path \in AudioFiles \cup {""} :
          IF path # ""
          THEN /\ state' = [state EXCEPT !.audio_path = path]
               /\ merge_btn' = enable_merge_if_ready(state', ENGINE)
          ELSE UNCHANGED <<state, merge_btn>>
    /\ UNCHANGED <<music_slider, original_slider, keep_original_chk, output_label>>
    /\ UNCHANGED threads
    /\ AppFrame

move_music_slider ==
    /\ \E v \in SliderStops \ {music_slider} : music_slider' = v
    /\ UNCHANGED <<state, merge_btn, original_slider, keep_original_chk, output_label>>
    /\ UNCHANGED threads
    /\ AppFrame

move_original_slider ==
    /\ \E v \in SliderStops \ {original_slider} : original_slider' = v
    /\ UNCHANGED <<state, merge_btn, music_slider, keep_original_chk, output_label>>
    /\ UNCHANGED threads
    /\ AppFrame

toggle_keep_original ==
    /\ keep_original_chk' = ~keep_original_chk
    /\ UNCHANGED <<state, merge_btn, music_slider, original_slider, output_label>>
    /\ UNCHANGED threads
    /\ AppFrame

\* The click reaches merge_and_preview only from an enabled button.
merge_and_preview ==
    /\ merge_btn
    /\ Threads < MaxThreads
    /\ \E out \in SaveNames :
          IF ~(state.video_path # None /\ state.audio_path # None)
          THEN UNCHANGED <<state, merge_btn, running>>
          ELSE IF ENGINE = "disabled"
          THEN UNCHANGED <<state, merge_btn, running>>
          ELSE IF out = ""
          THEN UNCHANGED <<state, merge_btn, running>>
          ELSE LET out_path == with_mp4(out)
                   worker == [video_path |-> state.video_path,
                              audio_path |-> state.audio_path,
                              output_path |-> out_path,
                              music_level |-> music_slider,
                              original_level |-> original_slider,
                              duck |-> keep_original_chk]
               IN  /\ state' = [state EXCEPT !.output_path = out_path]
                   /\ merge_btn' = FALSE
                   /\ running' = running (+) SetToBag({worker})
    /\ UNCHANGED <<music_slider, original_slider, keep_original_chk, output_label>>
    /\ UNCHANGED <<queue, disk>>
    /\ AppFrame

WorkerRun ==
    /\ \E req \in BagToSet(running) :
          \E o \in run(req, ENGINE) :
              /\ running' = running (-) SetToBag({req})
              /\ queue' = queue \o Connected(o.signal)
              /\ disk' = IF o.written = "no" THEN disk ELSE disk \cup {req.output_path}
    /\ UNCHANGED shell
    /\ AppFrame

on_merge_finished ==
    /\ queue # <<>>
    /\ Head(queue).slot = "on_merge_finished"
    /\ output_label' = Head(queue).arg
    /\ merge_btn' = enable_merge_if_ready(state, ENGINE)
    /\ queue' = Tail(queue)
    /\ UNCHANGED <<state, music_slider, original_slider, keep_original_chk>>
    /\ UNCHANGED <<running, disk>>
    /\ AppFrame

on_merge_failed_forgets ==
    /\ queue # <<>>
    /\ Head(queue).slot = "on_merge_failed"
    /\ queue' = Tail(queue)
    /\ UNCHANGED shell
    /\ UNCHANGED <<running, disk>>
    /\ AppFrame

on_merge_failed ==
    /\ queue # <<>>
    /\ Head(queue).slot = "on_merge_failed"
    /\ merge_btn' = enable_merge_if_ready(state, ENGINE)
    /\ queue' = Tail(queue)
    /\ UNCHANGED <<state, music_slider, original_slider, keep_original_chk, output_label>>
    /\ UNCHANGED <<running, disk>>
    /\ AppFrame

\* QThread.quit: the thread's event loop ends, finished deletes the thread.
thread_quit ==
    /\ queue # <<>>
    /\ Head(queue).slot = "quit"
    /\ queue' = Tail(queue)
    /\ UNCHANGED shell
    /\ UNCHANGED <<running, disk>>
    /\ AppFrame

Next ==
    \/ pick_video
    \/ pick_audio
    \/ move_music_slider
    \/ move_original_slider
    \/ toggle_keep_original
    \/ merge_and_preview
    \/ WorkerRun
    \/ on_merge_finished
    \/ on_merge_failed
    \/ thread_quit

Spec == Init /\ [][Next]_vars

(***************************************************************************)
(* One QThread and its MergeWorker, from thread.start() at the end of      *)
(* merge_and_preview to the end of both objects.  The worker lives in the  *)
(* new thread (moveToThread); MainWindow and the QThread object live in    *)
(* the interactive thread.  A signal emitted in the new thread calls a     *)
(* slot of the worker directly and queues a slot of MainWindow or of the   *)
(* QThread object on the interactive thread.  started calls worker.run     *)
(* directly, before QThread.run enters exec().                             *)
(*   thread.pc      "run"      worker.run executes                         *)
(*                  "exec"     the thread's event loop runs                *)
(*                  "finish"   exec() returned                             *)
(*                  "finished" the thread has ended                        *)
(*   thread.exited  quit() was called                                      *)
(*   thread.worker, thread.object  "alive", "deleteLater" (deletion        *)
(*                  scheduled) or "deleted"                                *)
(***************************************************************************)
QThread == [pc |-> "run", exited |-> FALSE, worker |-> "alive", object |-> "alive"]

\* deleteLater(): the deletion of a live object is scheduled.
deleteLater(object) == IF object = "alive" THEN "deleteLater" ELSE object

\* What the owner of the object's event loop does with a scheduled deletion.
DeferredDelete(object) == IF object = "deleteLater" THEN "deleted" ELSE object

\* The state merge_and_preview returns in for the request it built.
ThreadInit ==
    /\ ENGINE \in Engines \ {"disabled"}
    /\ FFMPEG_ERROR = None
    /\ boot = Off
    /\ call = Off
    /\ \E req \in Requests, lib \in Libs :
          /\ job = MergeWorker(req, lib)
          /\ state = [video_path |-> req.video_path, audio_path |-> req.audio_path,
                      output_path |-> req.output_path]
          /\ music_slider = req.music_level
          /\ original_slider = req.original_level
          /\ keep_original_chk = req.duck
    /\ merge_btn = FALSE
    /\ output_label = None
    /\ running = EmptyBag
    /\ queue = <<>>
    /\ disk = {}
    /\ thread = QThread

\* self.finished.emit(path): on_merge_finished and thread.quit are queued,
\* worker.deleteLater is called.
emit_finished ==
    /\ thread.pc = "run"
    /\ job.pc = "report"
    /\ job' = run_report(job)
    /\ queue' = queue \o Connected(Finished(job.req.output_path))
    /\ thread' = [thread EXCEPT !.worker = deleteLater(@)]
    /\ UNCHANGED <<globals, boot, call, shell, running, disk>>

\* self.failed.emit(str(e))
emit_failed ==
    /\ thread.pc = "run"
    /\ job.pc = "except"
    /\ job' = run_except(job)
    /\ queue' = queue \o Connected(Failed(job.exc))
    /\ thread' = [thread EXCEPT !.worker = deleteLater(@)]
    /\ UNCHANGED <<globals, boot, call, shell, running, disk>>

\* worker.run returns and QThread.run calls exec(), which returns at once
\* when quit() was called before it.
QThread_exec ==
    /\ thread.pc = "run"
    /\ job.pc = "done"
    /\ thread' = [thread EXCEPT !.pc = IF thread.exited THEN "finish" ELSE "exec"]
    /\ UNCHANGED <<globals, boot, call, job, shell, threads>>

\* The thread's event loop handles the deletion scheduled for the worker.
QThread_event ==
    /\ thread.pc = "exec"
    /\ thread.worker = "deleteLater"
    /\ thread' = [thread EXCEPT !.worker = DeferredDelete(@)]
    /\ UNCHANGED <<globals, boot, call, job, shell, threads>>

\* exec() returns after quit().
QThread_exec_return ==
    /\ thread.pc = "exec"
    /\ thread.exited
    /\ thread' = [thread EXCEPT !.pc = "finish"]
    /\ UNCHANGED <<globals, boot, call, job, shell, threads>>

\* The thread ends: finished queues thread.deleteLater on the interactive
\* thread, and the deletions scheduled in the thread are carried out.
QThread_finish ==
    /\ thread.pc = "finish"
    /\ queue' = Append(queue, Call("deleteLater", ""))
    /\ thread' = [thread EXCEPT !.pc = "finished", !.worker = DeferredDelete(@)]
    /\ UNCHANGED <<globals, boot, call, job, shell, running, disk>>

\* self.thread.quit, called from the interactive thread's queue
QThread_quit ==
    /\ thread.pc # "off"
    /\ queue # <<>>
    /\ Head(queue).slot = "quit"
    /\ queue' = Tail(queue)
    /\ thread' = [thread EXCEPT !.exited = TRUE]
    /\ UNCHANGED <<globals, boot, call, job, shell, running, disk>>

\* self.thread.deleteLater, called from the interactive thread's queue
QThread_deleteLater ==
    /\ queue # <<>>
    /\ Head(queue).slot = "deleteLater"
    /\ queue' = Tail(queue)
    /\ thread' = [thread EXCEPT !.object = deleteLater(@)]
    /\ UNCHANGED <<globals, boot, call, job, shell, running, disk>>

\* The steps of the new thread and those of the interactive thread's event loop.
WorkerThread ==
    \/ CheckEngine
    \/ LoadVideo
    \/ LoadMusic
    \/ MusicVol
    \/ Loop
    \/ Mix
    \/ Write
    \/ emit_finished
    \/ emit_failed
    \/ QThread_exec
    \/ QThread_event
    \/ QThread_exec_return
    \/ QThread_finish

MainThread ==
    \/ on_merge_finished
    \/ on_merge_failed
    \/ QThread_quit
    \/ QThread_deleteLater

ThreadNext == WorkerThread \/ MainThread

ThreadSpec == ThreadInit /\ [][ThreadNext]_vars

\* Both threads are scheduled, every stage of run() returns or raises, and the
\* message boxes of on_merge_finished and on_merge_failed are dismissed.
ThreadFairSpec == ThreadSpec /\ WF_vars(WorkerThread) /\ WF_vars(MainThread)

(***************************************************************************)
(* Claims.                                                                 *)
(***************************************************************************)
\* C1: at most one merge job is in flight at any time.
C1_AtMostOneJob == InFlight <= 1

\* C2: while a job is in flight the merge trigger is disabled.
C2_TriggerDisabledInFlight == InFlight > 0 => ~merge_btn

\* C3: with no engine the merge trigger is never enabled and no job is started.
C3_NoEngineNoMerge ==
    ENGINE = "disabled" =>
        /\ ~merge_btn
        /\ running = EmptyBag
        /\ queue = <<>>
        /\ disk = {}

C3_Witness ==
    /\ ENGINE = "disabled"
    /\ state.video_path # None
    /\ state.audio_path # None

Terminal(w) == SelectSeq(w.emitted, LAMBDA e : e.sig \in {"finished", "failed"})

\* C4: run() emits at most one of finished and failed while it runs, exactly
\* one once it is over, and it gets there whichever stage raises.
C4_ExactlyOneOutcome ==
    /\ [](job.pc # "off" =>
            /\ Len(Terminal(job)) <= 1
            /\ job.pc = "done" <=> Len(Terminal(job)) = 1
            /\ job.pc = "done" => job.emitted[Len(job.emitted)] = Terminal(job)[1])
    /\ <>(job.pc = "done")

C4_Witness ==
    /\ job.pc = "done"
    /\ job.written = "partial"
    /\ Terminal(job) = <<Failed(WRITE_ERROR)>>

\* The first mechanism of a call that is there and does not raise.
FirstMechanism(c) ==
    IF c.cap.volumex = "ok" THEN "volumex"
    ELSE IF c.volumex # None /\ c.cap.fx = "ok" THEN "fx"
    ELSE IF c.cap.fl = "ok" THEN "fl"
    ELSE "none"

\* C5: the adapter returns the result of the first mechanism, in the order
\* clip.volumex, clip.fx(volumex), clip.fl, that is there and does not raise;
\* with none it returns the source itself exactly when the level is within
\* 1e-9 of 1.0 and raises the capability error otherwise.
C5_VolumeFallback ==
    call.pc = "over" =>
        LET first == FirstMechanism(call)
            r == call.res
        IN  /\ first # "none" =>
                /\ r.ok
                /\ r.via = first
                /\ r.clip.gain * FULL = call.clip.gain * call.level
                /\ r.clip.track = call.clip.track
            /\ (first = "none" /\ abs(call.level - FULL) * EPS_INV < 1) =>
                /\ r.ok
                /\ r.clip = call.clip
            /\ (first = "none" /\ abs(call.level - FULL) * EPS_INV >= 1) =>
                /\ ~r.ok
                /\ r.err = VOLUME_ERROR

C5_Witness ==
    /\ call.pc = "over"
    /\ FirstMechanism(call) = "none"
    /\ call.level # FULL
    /\ ~call.res.ok

\* C6: once the locator has run, the engine is the system one whenever the
\* search path has an executable, the bundled one only when it has none and the
\* bundled path resolves and exists, and unavailable otherwise; then the error
\* is recorded and the load goes on.
C6_LocatorOrder ==
    boot.pc \notin {"off", "locate"} =>
        /\ boot.which => ENGINE = "system-ffmpeg"
        /\ (~boot.which /\ boot.bundled = "exists") => ENGINE = "bundled-ffmpeg"
        /\ (~boot.which /\ boot.bundled # "exists") =>
              /\ ENGINE = "disabled"
              /\ FFMPEG_ERROR = NO_FFMPEG
              /\ boot.pc # "crashed"
              /\ boot.pc = "exec" => boot.advisory = "FFmpeg missing"

C6_Witness ==
    /\ boot.pc = "exec"
    /\ ENGINE = "disabled"
    /\ ~boot.which

\* C7: when run() emits finished or failed, the video clip and the music clip
\* it opened are closed.
C7_HandlesReleased ==
    job.pc # "off" =>
        /\ job.pc \in {"report", "except", "done"} => job.open = {}
        /\ Len(Terminal(job)) > 0 => job.open = {}
        /\ job.pc \in {"music_vol", "loop", "mix", "write"} => job.open = {"video", "music"}

C7_Witness ==
    /\ job.pc = "done"
    /\ job.vol_calls = <<"music", "original">>
    /\ Terminal(job) = <<Failed(VOLUME_ERROR)>>
    /\ job.open = {}

\* C8: the looping stage calls audio_loop only when the video's duration is
\* positive and audio_loop was imported, and it always hands over to the mixing
\* stage with no exception: with the music as it was when audio_loop raised or
\* was not called, at the video's length when audio_loop returned.
C8_LoopBestEffort ==
    [][job.pc = "loop" =>
          /\ job'.pc = "mix"
          /\ job'.exc = ""
          /\ job'.loop \in {"looped", "raised"} <=>
                (job.duration > 0 /\ job.lib.audio_loop # None)
          /\ job'.loop # "looped" => job'.music = job.music
          /\ job'.loop = "looped" =>
                job'.music = [job.music EXCEPT !.len = job.duration]
          /\ job'.music.gain * FULL = FULL * job.req.music_level]_vars

C8_Witness ==
    /\ job.pc = "write"
    /\ job.loop = "raised"
    /\ job.music.len \in MusicLengths
    /\ job.music.len < job.duration

\* C9: the audio attached is the original track scaled by the original level
\* together with the music exactly when the ducking flag is set and the video
\* has an audio track; in every other case it is the music alone and the
\* adapter was never applied to the original track.
C9_DuckingBranch ==
    job.pc # "off" =>
        LET ducked == job.req.duck /\ job.original_audio # NoClip
            bed == [job.original_audio EXCEPT !.gain = job.req.original_level]
        IN  /\ (job.audio # {} /\ ducked) =>
                /\ job.audio = {bed, job.music}
                /\ job.vol_calls = <<"music", "original">>
            /\ (job.audio # {} /\ ~ducked) =>
                /\ job.audio = {job.music}
                /\ job.vol_calls = <<"music">>
            /\ ~ducked => job.vol_calls \in {<<>>, <<"music">>}
            /\ job.pc \in {"write", "report"} => job.audio # {}

C9_Witness ==
    /\ job.pc = "write"
    /\ ~job.req.duck
    /\ job.original_audio # NoClip
    /\ job.req.original_level # FULL
    /\ job.audio = {job.music}

\* C10: a job whose video fails to load reports a failure with a message, has
\* created no output file, and the delivery of its failure enables the merge
\* trigger.
C10_VideoLoadFailure ==
    [][/\ (Len(queue') > Len(queue)
            /\ queue'[Len(queue) + 1] = Call("on_merge_failed", VIDEO_ERROR)) =>
                /\ disk' = disk
                /\ queue'[Len(queue) + 1].arg # ""
       /\ (queue # <<>> /\ queue' = Tail(queue)
            /\ Head(queue) = Call("on_merge_failed", VIDEO_ERROR)) =>
                merge_btn']_vars

C10_Witness ==
    /\ queue = <<Call("quit", VIDEO_ERROR)>>
    /\ running = EmptyBag
    /\ disk = {}
    /\ merge_btn

\* A thread that was told to quit and has ended, its worker and the QThread
\* object scheduled for deletion.
TornDown ==
    /\ thread.exited
    /\ thread.pc = "finished"
    /\ thread.worker \in {"deleteLater", "deleted"}
    /\ thread.object \in {"deleteLater", "deleted"}

\* C11: once the worker has emitted finished or failed, its deletion is
\* scheduled and thread.quit is queued or was called; from then on the thread
\* is eventually told to quit, ends, and the worker and the thread are
\* scheduled for deletion, for finished and for failed alike, and stay so.
C11_Teardown ==
    /\ [](thread.pc # "off" =>
            /\ Len(Terminal(job)) > 0 =>
                  /\ thread.worker \in {"deleteLater", "deleted"}
                  /\ thread.exited \/ Pending({"quit"}) = 1
            /\ thread.pc \in {"finish", "finished"} => thread.exited
            /\ thread.object # "alive" => thread.pc = "finished")
    /\ (thread.pc # "off" /\ Len(Terminal(job)) > 0) ~> []TornDown
    /\ (thread.pc # "off" /\ job.pc = "except") ~> TornDown

C11_Witness ==
    /\ TornDown
    /\ Terminal(job) = <<Failed(MUSIC_ERROR)>>
    /\ thread.worker = "deleted"
    /\ thread.object = "deleteLater"
    /\ queue = <<>>

\* The request MergeWorker.__init__ takes from the shell as it is, for the
\* output path chosen.
ShellRequest(out_path) ==
    [video_path |-> state.video_path, audio_path |-> state.audio_path,
     output_path |-> out_path, music_level |-> music_slider,
     original_level |-> original_slider, duck |-> keep_original_chk]

Milestones(w) ==
    LET ps == SelectSeq(w.emitted, LAMBDA e : e.sig = "progress")
    IN  [i \in 1..Len(ps) |-> ps[i].n]

MILESTONES == <<5, 20, 55, 100>>

IsPrefix(s, t) == Len(s) <= Len(t) /\ s = SubSeq(t, 1, Len(s))

\* C13: the milestones of one run() are a prefix of 5, 20, 55, 100; with the
\* engine unavailable there is none and the run fails with the engine error;
\* 100 is emitted only after write_videofile returned; once the run is over
\* all four were emitted exactly when the outcome is finished, 100 is then the
\* signal just before finished, and nothing is emitted after finished or
\* failed.
C13_ProgressMilestones ==
    job.pc # "off" =>
        LET ms == Milestones(job)
            n == Len(job.emitted)
        IN  /\ IsPrefix(ms, MILESTONES)
            /\ ENGINE = "disabled" =>
                  /\ ms = <<>>
                  /\ job.pc = "done" => job.emitted = <<Failed(ENGINE_ERROR)>>
            /\ ms = MILESTONES => job.written = "whole"
            /\ Len(ms) >= 1 => ENGINE # "disabled"
            /\ Len(ms) >= 2 => job.v_fps > 0
            /\ Len(ms) >= 3 => job.audio # {}
            /\ job.pc = "done" =>
                  (ms = MILESTONES <=> job.emitted[n].sig = "finished")
            /\ (n > 0 /\ job.emitted[n].sig = "finished") =>
                  /\ n = Len(MILESTONES) + 1
                  /\ job.emitted[n - 1] = Progress(100)
                  /\ job.emitted[n].text = job.req.output_path
            /\ \A i \in 1..(n - 1) : job.emitted[i].sig = "progress"

C13_Witness ==
    /\ job.pc = "done"
    /\ Milestones(job) = <<5, 20, 55>>
    /\ job.written = "no"
    /\ job.emitted[Len(job.emitted)] = Failed(WRITE_ERROR)

====
